---- MODULE Spec2Model ----
(***************************************************************************)
(* The calculation-state engine of the calculator: input validation, the   *)
(* operation strategies, the Calculation record, the Calculator with its   *)
(* bounded history, undo/redo stacks, observers and CSV persistence.       *)
(*                                                                         *)
(* A Decimal is modelled by its numeric value in fixed point: the integer  *)
(* v stands for the decimal v / Scale.  Python compares Decimals by their  *)
(* numeric value, so two Decimals are equal exactly when their models are. *)
(* A float is a fixed-point value on the coarser grid of FloatUlp.         *)
(***************************************************************************)
EXTENDS Integers, Sequences, FiniteSets, TLC

VARIABLES
    history,            \* Calculator.history: sequence of Calculation
    undo_stack,         \* Calculator.undo_stack: sequence of mementos
    redo_stack,         \* Calculator.redo_stack: sequence of mementos
    operation_strategy, \* Calculator.operation_strategy: a strategy or None
    observers,          \* Calculator.observers: sequence of observers
    history_file,       \* the CSV file at config.history_file
    now,                \* datetime.datetime.now(), a logical clock
    call,               \* name of the last call made on the Calculator
    args,               \* the raw inputs of the last call
    ret,                \* what the last call returned or raised
    notified,           \* observers whose update ran during the last call
    pre,                \* the Calculator's state just before the last call
    chain,              \* 1 after a perform_operation that returned, 2 after
                        \* an undo right after it, 3 after a redo right
                        \* after that undo, 4 after a clear_history and
                        \* the undos and redos right after it, 5 after a
                        \* load_history right after that undo, 6 after
                        \* an undo right after that load, else 0
    operations,         \* OperationFactory._operations: lower-case name to
                        \* strategy class, None where nothing is registered
    repl                \* calculator_repl: where its loop stands (pc), the
                        \* command it read last and what input() did last

vars == <<history, undo_stack, redo_stack, operation_strategy, observers,
          history_file, now, call, args, ret, notified, pre, chain,
          operations, repl>>

(***************************************************************************)
(* Bounds of the model and the configuration it runs under.                *)
(***************************************************************************)
\* digits kept after the decimal point by the fixed-point Decimals
DecimalPlaces == 1
\* config.max_history_size of the Calculator under check
max_history_size == 2
\* config.max_input_value of the Calculator under check
max_input_value == 3
\* the clock stops here: at most this many Calculations are performed
MaxClock == 2
\* at most this many observers are registered at a time
MaxObservers == 2

Scale == 10 ^ DecimalPlaces
FloatUlp == Scale \div 2

None == "None"
\* the CSV file: missing, or its rows below the header
Absent == [exists |-> FALSE, rows |-> <<>>]
File(rows) == [exists |-> TRUE, rows |-> rows]

Abs(x) == IF x < 0 THEN -x ELSE x

\* n / d rounded half-even, as the decimal context rounds (d # 0)
DivRound(n, d) ==
    LET s  == IF (n < 0) = (d < 0) THEN 1 ELSE -1
        q  == Abs(n) \div Abs(d)
        r  == Abs(n) % Abs(d)
        up == 2 * r > Abs(d) \/ (2 * r = Abs(d) /\ q % 2 = 1)
    IN  s * (IF up THEN q + 1 ELSE q)

\* n / d truncated toward zero (d # 0)
DivTrunc(n, d) ==
    (IF (n < 0) = (d < 0) THEN 1 ELSE -1) * (Abs(n) \div Abs(d))

IsIntegral(x) == x % Scale = 0

\* Decimal('NaN'): what Decimal(float('nan')) gives; no number of the model
\* comes near it
NaN == -(10 ^ 9)

\* the nearest float to the real x / Scale
ToFloat(x) == DivRound(x, FloatUlp) * FloatUlp

(***************************************************************************)
(* What a call returns or raises.  msg is the chain of message parts, the  *)
(* outermost first: OperationError(f"Operation failed: {e}") prepends one. *)
(***************************************************************************)
Return(v)     == [ok |-> TRUE, exc |-> "", msg |-> <<>>, value |-> v, flag |-> FALSE]
ReturnNone    == [ok |-> TRUE, exc |-> "", msg |-> <<>>, value |-> 0, flag |-> FALSE]
ReturnBool(b) == [ok |-> TRUE, exc |-> "", msg |-> <<>>, value |-> 0, flag |-> b]
Raise(e, m)   == [ok |-> FALSE, exc |-> e, msg |-> m, value |-> 0, flag |-> FALSE]

Contains(msg, part) == \E i \in 1..Len(msg) : msg[i] = part

(***************************************************************************)
(* Raw inputs a caller may hand to perform_operation: numeric text, given  *)
(* by the Decimal it parses to, or text that is no number.                 *)
(***************************************************************************)
Number(n) == [kind |-> "number", number |-> n * Scale]
NotANumber == [kind |-> "text", number |-> 0]

RawInputs == {Number(0), Number(2), Number(max_input_value + 1), NotANumber}

\* validate_number without the max_input_value comparison
validate_number_unbounded(value) ==
    IF value.kind # "number"
    THEN Raise("ValidationError", <<"Invalid number format">>)
    ELSE Return(value.number)

\* InputValidator.validate_number: Decimal(str(value)) raises InvalidOperation
\* for text that is no number; normalize() keeps the numeric value.
validate_number(value) ==
    IF value.kind # "number"
    THEN Raise("ValidationError", <<"Invalid number format">>)
    ELSE IF Abs(value.number) > max_input_value * Scale
    THEN Raise("ValidationError", <<"Value exceeds maximum allowed">>)
    ELSE Return(value.number)

(***************************************************************************)
(* Float arithmetic used by Power and Root.                                *)
(***************************************************************************)
RECURSIVE IPow(_, _)
IPow(x, k) == IF k = 0 THEN 1 ELSE x * IPow(x, k - 1)

\* pow(x, y) for floats x and an integral float y; 0.0 to a negative power
\* raises ZeroDivisionError
FloatPowInt(x, k) ==
    IF k = 0 THEN Return(Scale)
    ELSE IF k > 0 THEN Return(ToFloat(DivRound(IPow(x, k), IPow(Scale, k - 1))))
    ELSE IF x = 0 THEN Raise("ZeroDivisionError", <<"0.0 cannot be raised to a negative power">>)
    ELSE Return(ToFloat(DivRound(IPow(Scale, 1 - k), IPow(x, -k))))

\* the k-th root (k >= 1) of x >= 0, rounded down to the decimal grid
FloorRoot(x, k) ==
    CHOOSE r \in 0..(x + Scale) :
        /\ IPow(r, k) <= x * IPow(Scale, k - 1)
        /\ IPow(r + 1, k) > x * IPow(Scale, k - 1)

\* pow(float(x), float(y)): a negative base with a fractional exponent gives
\* a complex number, which Decimal() refuses with TypeError
FloatPow(x, y) ==
    CASE IsIntegral(y) -> FloatPowInt(ToFloat(x), y \div Scale)
      [] ~IsIntegral(y) /\ x < 0 ->
            Raise("TypeError", <<"conversion from complex to Decimal is not supported">>)
      [] ~IsIntegral(y) /\ x >= 0 /\ y > 0 /\ Scale % y = 0 ->
            Return(ToFloat(FloorRoot(ToFloat(x), Scale \div y)))

\* pow(float(x), 1 / float(y)) for y # 0: the float nearest the root
FloatRoot(x, y) ==
    CASE IsIntegral(y) /\ y > 0 /\ x >= 0 ->
            Return(ToFloat(FloorRoot(ToFloat(x), y \div Scale)))
      [] IsIntegral(y) /\ y < 0 /\ x > 0 ->
            Return(ToFloat(DivRound(Scale * Scale, FloorRoot(ToFloat(x), (-y) \div Scale))))
      [] y < 0 /\ x = 0 ->
            Raise("ZeroDivisionError", <<"0.0 cannot be raised to a negative power">>)
      [] x < 0 ->
            Raise("TypeError", <<"conversion from complex to Decimal is not supported">>)

(***************************************************************************)
(* The operation strategies.  A strategy holds no state, so it is          *)
(* modelled by the name of its class, which is also what str() gives.      *)
(***************************************************************************)
BuiltinStrategies ==
    {"Addition", "Subtraction", "Multiplication", "Division", "Power", "Root"}

\* an Operation subclass registered by a caller, as the tests do
CustomStrategies == {"NewOperation"}

\* the strategies handed to set_operation: a built-in one that rejects some
\* operands, and one whose name the Calculation record does not know
Strategies == {"Division", "NewOperation"}

\* validate_operands with Division's refusal raised as an OperationError,
\* as Calculation.calculate raises it
validate_operands_raises_operation_error(op, a, b) ==
    CASE op = "Division" /\ b = 0 ->
            Raise("OperationError", <<"Division by zero is not allowed">>)
      [] op = "Power" /\ b < 0 ->
            Raise("ValidationError", <<"Negative exponents not supported">>)
      [] op = "Root" /\ a < 0 ->
            Raise("ValidationError", <<"Cannot calculate root of negative number">>)
      [] op = "Root" /\ a >= 0 /\ b = 0 ->
            Raise("ValidationError", <<"Zero root is undefined">>)
      [] OTHER -> ReturnNone

\* validate_operands with Root's two checks in the other order
validate_operands_zero_root_first(op, a, b) ==
    CASE op = "Division" /\ b = 0 ->
            Raise("ValidationError", <<"Division by zero is not allowed">>)
      [] op = "Power" /\ b < 0 ->
            Raise("ValidationError", <<"Negative exponents not supported">>)
      [] op = "Root" /\ b = 0 ->
            Raise("ValidationError", <<"Zero root is undefined">>)
      [] op = "Root" /\ b # 0 /\ a < 0 ->
            Raise("ValidationError", <<"Cannot calculate root of negative number">>)
      [] OTHER -> ReturnNone

\* Operation.validate_operands and its overrides
validate_operands(op, a, b) ==
    CASE op = "Division" /\ b = 0 ->
            Raise("ValidationError", <<"Division by zero is not allowed">>)
      [] op = "Power" /\ b < 0 ->
            Raise("ValidationError", <<"Negative exponents not supported">>)
      [] op = "Root" /\ a < 0 ->
            Raise("ValidationError", <<"Cannot calculate root of negative number">>)
      [] op = "Root" /\ a >= 0 /\ b = 0 ->
            Raise("ValidationError", <<"Zero root is undefined">>)
      [] OTHER -> ReturnNone

\* the arithmetic of each strategy's execute, after validation
\* Root.execute raising to the power b instead of 1 / b
Arithmetic_root_as_power(op, a, b) ==
    CASE op = "Addition"       -> Return(a + b)
      [] op = "Subtraction"    -> Return(a - b)
      [] op = "Multiplication" -> Return(DivRound(a * b, Scale))
      [] op = "Division"       -> Return(DivRound(a * Scale, b))
      [] op = "Power"          -> FloatPow(a, b)
      [] op = "Root"           -> FloatPow(a, b)
      [] op = "NewOperation"   -> Return(a)

Arithmetic(op, a, b) ==
    CASE op = "Addition"       -> Return(a + b)
      [] op = "Subtraction"    -> Return(a - b)
      [] op = "Multiplication" -> Return(DivRound(a * b, Scale))
      [] op = "Division"       -> Return(DivRound(a * Scale, b))
      [] op = "Power"          -> FloatPow(a, b)
      [] op = "Root"           -> FloatRoot(a, b)
      [] op = "NewOperation"   -> Return(a)

\* the strategy classes that the tests and the REPL take from
\* app.operations but that the source at hand leaves out
MissingStrategies ==
    {"Modulus", "IntegerDivision", "PercentageCalculation",
     "AbsoluteDifference"}

\* validate_operands of the classes left out, as their tests expect it: a
\* zero second operand is refused, each class with its own message
validate_missing(op, a, b) ==
    CASE op = "Modulus" /\ b = 0 ->
            Raise("ValidationError", <<"Modulus by zero is not allowed">>)
      [] op = "IntegerDivision" /\ b = 0 ->
            Raise("ValidationError", <<"Integer division by zero is not allowed">>)
      [] op = "PercentageCalculation" /\ b = 0 ->
            Raise("ValidationError", <<"Cannot calculate percentage with zero base">>)
      [] OTHER -> ReturnNone

\* the arithmetic of the classes left out, as their tests expect it: the
\* remainder takes the sign of a, the quotient is cut toward zero
ArithmeticMissing(op, a, b) ==
    CASE op = "Modulus"               -> Return(a - b * DivTrunc(a, b))
      [] op = "IntegerDivision"       -> Return(DivTrunc(a, b) * Scale)
      [] op = "PercentageCalculation" -> Return(DivRound(a * Scale, b) * 100)
      [] op = "AbsoluteDifference"    -> Return(Abs(a - b))

\* execute of the classes left out: validate_operands, then the arithmetic
execute_missing(op, a, b) ==
    IF ~validate_missing(op, a, b).ok THEN validate_missing(op, a, b)
    ELSE ArithmeticMissing(op, a, b)

\* Operation.execute: validate_operands, then the arithmetic; the custom
\* strategy's execute validates nothing
execute(op, a, b) ==
    IF op \in MissingStrategies THEN execute_missing(op, a, b)
    ELSE IF op \in BuiltinStrategies /\ ~validate_operands(op, a, b).ok
    THEN validate_operands(op, a, b)
    ELSE Arithmetic(op, a, b)

(***************************************************************************)
(* The operation factory.  Its registry is a class attribute: a dict from  *)
(* lower-case name to strategy class, here a function over the lower-case  *)
(* names the model uses, None standing for a missing key.                  *)
(***************************************************************************)
\* the commands the REPL hands to create_operation
Commands ==
    {"add", "subtract", "multiply", "divide", "power", "root", "modulus",
     "int_divide", "percent", "abs_diff"}

\* str.lower() on the identifiers the model uses: a name with its lower-case
\* form
LowerCase ==
    {<<"add", "add">>, <<"ADD", "add">>, <<"Add", "add">>,
     <<"subtract", "subtract">>, <<"SUBTRACT", "subtract">>,
     <<"multiply", "multiply">>, <<"MULTIPLY", "multiply">>,
     <<"divide", "divide">>, <<"DIVIDE", "divide">>,
     <<"power", "power">>, <<"POWER", "power">>,
     <<"root", "root">>, <<"ROOT", "root">>, <<"rOOt", "root">>,
     <<"modulus", "modulus">>, <<"MODULUS", "modulus">>,
     <<"int_divide", "int_divide">>, <<"INT_DIVIDE", "int_divide">>,
     <<"percent", "percent">>, <<"PERCENT", "percent">>,
     <<"abs_diff", "abs_diff">>, <<"ABS_DIFF", "abs_diff">>,
     <<"new_op", "new_op">>, <<"NEW_OP", "new_op">>, <<"New_Op", "new_op">>,
     <<"invalid_op", "invalid_op">>, <<"INVALID_OP", "invalid_op">>}

Identifiers == {p[1] : p \in LowerCase}

lower(name) == (CHOOSE p \in LowerCase : p[1] = name)[2]

\* OperationFactory._operations as the class body sets it
seeded_operations ==
    [key \in {p[2] : p \in LowerCase} |->
        CASE key = "add"      -> "Addition"
          [] key = "subtract" -> "Subtraction"
          [] key = "multiply" -> "Multiplication"
          [] key = "divide"   -> "Division"
          [] key = "power"    -> "Power"
          [] key = "root"     -> "Root"
          [] OTHER            -> None]

\* a class that does not inherit from Operation, as the tests define one
OtherClasses == {"InvalidOperation"}

\* issubclass(operation_class, Operation)
issubclass_Operation(operation_class) ==
    operation_class \in BuiltinStrategies \cup CustomStrategies
                        \cup MissingStrategies

\* register_operation storing the class under the name as given; a lookup
\* by lower-case key never finds a key with a capital in it
register_operation_case_sensitive(ops, name, operation_class) ==
    IF ~issubclass_Operation(operation_class)
    THEN [ret |-> Raise("TypeError",
                        <<"Operation class must inherit from Operation">>),
          operations |-> ops]
    ELSE [ret |-> ReturnNone,
          operations |-> [ops EXCEPT ![name] = operation_class]]

\* OperationFactory.register_operation on the registry ops: the outcome and
\* the registry it leaves
register_operation(ops, name, operation_class) ==
    IF ~issubclass_Operation(operation_class)
    THEN [ret |-> Raise("TypeError",
                        <<"Operation class must inherit from Operation">>),
          operations |-> ops]
    ELSE [ret |-> ReturnNone,
          operations |-> [ops EXCEPT ![lower(name)] = operation_class]]

\* create_operation looking the name up as given
create_operation_case_sensitive(ops, operation_type) ==
    IF operation_type \notin DOMAIN ops \/ ops[lower(operation_type)] = None
    THEN Raise("ValueError", <<"Unknown operation: ", operation_type>>)
    ELSE Return(ops[lower(operation_type)])

\* OperationFactory.create_operation on the registry ops: an instance of the
\* class found, modelled by the class name
create_operation(ops, operation_type) ==
    IF ops[lower(operation_type)] = None
    THEN Raise("ValueError", <<"Unknown operation: ", operation_type>>)
    ELSE Return(ops[lower(operation_type)])

(***************************************************************************)
(* The Calculation record.                                                 *)
(***************************************************************************)
\* Calculation._raise_invalid_root
raise_invalid_root(x, y) ==
    IF y = 0 THEN Raise("OperationError", <<"Zero root is undefined">>)
    ELSE IF x < 0
    THEN Raise("OperationError", <<"Cannot calculate root of negative number">>)
    ELSE Raise("OperationError", <<"Invalid root operation">>)

raise_div_zero == Raise("OperationError", <<"Division by zero is not allowed">>)

\* the lambdas of Calculation.calculate's table
CalculateOp(operation, x, y) ==
    CASE operation = "Addition"       -> Return(x + y)
      [] operation = "Subtraction"    -> Return(x - y)
      [] operation = "Multiplication" -> Return(DivRound(x * y, Scale))
      [] operation = "Division" ->
            IF y # 0 THEN Return(DivRound(x * Scale, y)) ELSE raise_div_zero
      [] operation = "Power" ->
            IF y >= 0 THEN FloatPow(x, y)
            ELSE Raise("OperationError", <<"Negative exponents are not supported">>)
      [] operation = "Root" ->
            IF x >= 0 /\ y # 0 THEN FloatRoot(x, y) ELSE raise_invalid_root(x, y)
      [] operation = "Modulus" ->
            IF y # 0 THEN Return(x - y * DivTrunc(x, y)) ELSE raise_div_zero
      [] operation = "IntegerDivision" ->
            IF y # 0 THEN Return(DivTrunc(x, y) * Scale) ELSE raise_div_zero
      [] operation = "PercentageCalculation" ->
            IF y # 0 THEN Return(DivRound(DivRound(x * Scale, y) * 100 * Scale, Scale))
            ELSE raise_div_zero
      [] operation = "AbsoluteDifference" -> Return(Abs(x - y))

\* the same lambdas when an operand is NaN: arithmetic gives NaN, y != 0 is
\* True for a NaN y, an ordering comparison with NaN raises
\* InvalidOperation, and pow(nan, 0.0) and pow(1.0, nan) are 1.0
CalculateNaN(operation, x, y) ==
    CASE operation \in {"Addition", "Subtraction", "Multiplication",
                        "AbsoluteDifference"} -> Return(NaN)
      [] operation \in {"Division", "Modulus", "IntegerDivision",
                        "PercentageCalculation"} ->
            IF y # 0 THEN Return(NaN) ELSE raise_div_zero
      [] operation = "Power" ->
            IF y = NaN
            THEN Raise("InvalidOperation", <<"comparison involving NaN">>)
            ELSE IF y < 0
            THEN Raise("OperationError", <<"Negative exponents are not supported">>)
            ELSE IF y = 0 THEN Return(Scale)
            ELSE Return(NaN)
      [] operation = "Root" ->
            IF x = NaN
            THEN Raise("InvalidOperation", <<"comparison involving NaN">>)
            ELSE IF x < 0 THEN raise_invalid_root(x, y)
            ELSE IF x = Scale THEN Return(Scale)
            ELSE Return(NaN)

CalculationNames ==
    {"Addition", "Subtraction", "Multiplication", "Division", "Power", "Root",
     "Modulus", "IntegerDivision", "PercentageCalculation", "AbsoluteDifference"}

\* the except clause of Calculation.calculate: arithmetic errors are
\* wrapped, any other exception passes through
calculate_except(r) ==
    IF ~r.ok /\ r.exc \in {"ZeroDivisionError", "OverflowError",
                            "InvalidOperation", "ValueError"}
    THEN Raise("OperationError", <<"Calculation failed">> \o r.msg)
    ELSE r

\* Calculation.calculate: an unknown name is an OperationError
calculate(operation, x, y) ==
    IF operation \notin CalculationNames
    THEN Raise("OperationError", <<"Unknown operation">>)
    ELSE calculate_except(IF x = NaN \/ y = NaN
                          THEN CalculateNaN(operation, x, y)
                          ELSE CalculateOp(operation, x, y))

\* Calculation.__post_init__ once calculate has given r: the record with its
\* result, or the failure
post_init(operation, operand1, operand2, ts, r) ==
    IF r.ok
    THEN Return([operation |-> operation, operand1 |-> operand1,
                 operand2 |-> operand2, result |-> r.value, timestamp |-> ts])
    ELSE r

\* Calculation(operation, operand1, operand2) constructed at time ts
Calculation(operation, operand1, operand2, ts) ==
    post_init(operation, operand1, operand2, ts,
              calculate(operation, operand1, operand2))

\* Decimal.__eq__: a NaN equals nothing, itself included
DecimalEq(x, y) == x = y /\ x # NaN

\* Calculation.__eq__: the timestamp is left out
CalculationEq(c, d) ==
    /\ c.operation = d.operation
    /\ DecimalEq(c.operand1, d.operand1)
    /\ DecimalEq(c.operand2, d.operand2)
    /\ DecimalEq(c.result, d.result)

(***************************************************************************)
(* Mementos and the CSV file.                                              *)
(***************************************************************************)
\* CalculatorMemento(history): holds the list it is given
CalculatorMemento(h) == [history |-> h]

\* config.auto_save of the Calculator under check
auto_save == TRUE

\* a cell of the CSV: the text of a decimal number or of a timestamp, given
\* by the value it denotes; text that is neither; or a cell pandas reads
\* as NaN (an empty cell, NA, NaN)
NumberCell(v) == [kind |-> "number", number |-> v]
TextCell == [kind |-> "text", number |-> 0]
NaCell == [kind |-> "na", number |-> 0]

\* str(Decimal): the text denotes exactly the Decimal's value
DecimalText(v) == IF v = NaN THEN NaCell ELSE NumberCell(v)

\* one row of the CSV as save_history writes it: str() of each field
ToRow(calc) ==
    [operation |-> calc.operation,
     operand1 |-> DecimalText(calc.operand1),
     operand2 |-> DecimalText(calc.operand2),
     result |-> DecimalText(calc.result),
     timestamp |-> NumberCell(calc.timestamp)]

\* pandas.read_csv on a cell of an operand or result column: an integer
\* stays exact, any other number becomes the nearest float, NA becomes
\* float('nan'), other text stays a string
ReadCsvNumber(cell) ==
    CASE cell.kind = "number" ->
            NumberCell(IF IsIntegral(cell.number) THEN cell.number
                       ELSE ToFloat(cell.number))
      [] cell.kind = "na" -> NumberCell(NaN)
      [] OTHER -> cell

\* the row as load_history hands it to from_dict: the timestamp column
\* holds strings, and float('nan') where a cell is NA
ReadCsvRow(row) ==
    [operation |-> row.operation,
     operand1 |-> ReadCsvNumber(row.operand1),
     operand2 |-> ReadCsvNumber(row.operand2),
     result |-> ReadCsvNumber(row.result),
     timestamp |-> row.timestamp]

\* Decimal(value) on a value of the dictionary given to from_dict
Decimal(value) ==
    IF value.kind = "number" THEN Return(value.number)
    ELSE Raise("InvalidOperation", <<"ConversionSyntax">>)

\* datetime.fromisoformat(value)
fromisoformat(value) ==
    CASE value.kind = "number" -> Return(value.number)
      [] value.kind = "na" ->
            Raise("TypeError", <<"fromisoformat: argument must be str">>)
      [] OTHER -> Raise("ValueError", <<"Invalid isoformat string">>)

\* the except clause of Calculation.from_dict
from_dict_except(e) ==
    IF e.exc \in {"KeyError", "InvalidOperation", "ValueError"}
    THEN Raise("OperationError", <<"Invalid calculation data">> \o e.msg)
    ELSE e

\* from_dict taking the stored result over the computed one
restore_keeps_stored_result(data, c) ==
    IF ~c.ok THEN from_dict_except(c)
    ELSE IF ~fromisoformat(data.timestamp).ok
    THEN from_dict_except(fromisoformat(data.timestamp))
    ELSE IF ~Decimal(data.result).ok THEN from_dict_except(Decimal(data.result))
    ELSE Return([c.value EXCEPT
                     !.timestamp = fromisoformat(data.timestamp).value,
                     !.result = Decimal(data.result).value])

\* from_dict raising ValueError when the stored result differs
restore_rejects_mismatch(data, c) ==
    IF ~c.ok THEN from_dict_except(c)
    ELSE IF ~fromisoformat(data.timestamp).ok
    THEN from_dict_except(fromisoformat(data.timestamp))
    ELSE IF ~Decimal(data.result).ok THEN from_dict_except(Decimal(data.result))
    ELSE IF Decimal(data.result).value # c.value.result
    THEN from_dict_except(Raise("ValueError", <<"result mismatch">>))
    ELSE Return([c.value EXCEPT
                     !.timestamp = fromisoformat(data.timestamp).value])

\* Calculation.from_dict once the Calculation c is constructed: the stored
\* timestamp is restored, the stored result is parsed and, when it differs
\* from the computed one, only logged
restore(data, c) ==
    IF ~c.ok THEN from_dict_except(c)
    ELSE IF ~fromisoformat(data.timestamp).ok
    THEN from_dict_except(fromisoformat(data.timestamp))
    ELSE IF ~Decimal(data.result).ok THEN from_dict_except(Decimal(data.result))
    ELSE Return([c.value EXCEPT
                     !.timestamp = fromisoformat(data.timestamp).value])

\* Calculation.from_dict(data), called at time ts
from_dict(data, ts) ==
    IF ~Decimal(data.operand1).ok THEN from_dict_except(Decimal(data.operand1))
    ELSE IF ~Decimal(data.operand2).ok
    THEN from_dict_except(Decimal(data.operand2))
    ELSE restore(data, Calculation(data.operation,
                                   Decimal(data.operand1).value,
                                   Decimal(data.operand2).value, ts))

\* the first row that failed to load
FirstBad(loaded) ==
    CHOOSE j \in 1..Len(loaded) :
        ~loaded[j].ok /\ \A k \in 1..(j - 1) : loaded[k].ok

\* the list comprehension of load_history and its except clause: the
\* history is assigned only when every row was reconstructed
assign_loaded(h, loaded) ==
    IF \A i \in 1..Len(loaded) : loaded[i].ok
    THEN [ret |-> ReturnNone,
          history |-> [i \in 1..Len(loaded) |-> loaded[i].value]]
    ELSE [ret |-> Raise("OperationError", <<"Failed to load history">>
                                           \o loaded[FirstBad(loaded)].msg),
          history |-> h]

\* Calculator.load_history applied to file f while the history is h: a
\* missing file and a file without rows leave the history as it is
load_history(f, h, ts) ==
    IF ~f.exists THEN [ret |-> ReturnNone, history |-> h]
    ELSE IF Len(f.rows) = 0 THEN [ret |-> ReturnNone, history |-> h]
    ELSE assign_loaded(h, [i \in 1..Len(f.rows) |->
                              from_dict(ReadCsvRow(f.rows[i]), ts)])

\* save_history trying the write a second time after it failed
save_history_retries(h, f, writable) ==
    [ret |-> ReturnNone, file |-> File([i \in 1..Len(h) |-> ToRow(h[i])])]

\* Calculator.save_history of history h over file f; the write may fail
save_history(h, f, writable) ==
    IF writable
    THEN [ret |-> ReturnNone, file |-> File([i \in 1..Len(h) |-> ToRow(h[i])])]
    ELSE [ret |-> Raise("OperationError", <<"Failed to save history", "write failed">>),
          file |-> f]

(***************************************************************************)
(* Observers.                                                              *)
(***************************************************************************)
ObserverKinds == {"LoggingObserver", "AutoSaveObserver"}

\* LoggingObserver.update and AutoSaveObserver.update for a Calculator whose
\* history is h and whose file is f
update(observer, h, f, writable) ==
    IF observer = "AutoSaveObserver" /\ auto_save
    THEN save_history(h, f, writable)
    ELSE [ret |-> ReturnNone, file |-> f]

\* Calculator.notify_observers from the i-th observer on: the first update
\* that raises ends the loop
RECURSIVE notify_observers(_, _, _, _, _)

\* the observer was notified before the rest were
notified_first(observer, rest) ==
    [ret |-> rest.ret, file |-> rest.file,
     notified |-> <<observer>> \o rest.notified]

\* notify_observers returning after the first update
notify_rest_stops(obs, i, h, u, writable) ==
    [ret |-> u.ret, file |-> u.file, notified |-> <<obs[i]>>]

\* the loop goes on after the i-th update u unless u raised
notify_rest(obs, i, h, u, writable) ==
    IF ~u.ret.ok
    THEN [ret |-> u.ret, file |-> u.file, notified |-> <<obs[i]>>]
    ELSE notified_first(obs[i], notify_observers(obs, i + 1, h, u.file, writable))

notify_observers(obs, i, h, f, writable) ==
    IF i > Len(obs) THEN [ret |-> ReturnNone, file |-> f, notified |-> <<>>]
    ELSE notify_rest(obs, i, h, update(obs[i], h, f, writable), writable)

(***************************************************************************)
(* The Calculator.                                                         *)
(***************************************************************************)
\* a row whose stored result is not what its operands give
Stale(row) == [row EXCEPT !.result = NumberCell(0)]

\* a history file left by an earlier session: none, as many rows as the
\* history may hold, or one row more (written under a larger
\* max_history_size); the i-th row is Addition(i, 2), stored before time 1,
\* and the stored result of the first row is stale
StoredRows(n) ==
    [i \in 1..n |->
        IF i = 1
        THEN Stale(ToRow(Calculation("Addition", i * Scale, 2 * Scale,
                                     i - n).value))
        ELSE ToRow(Calculation("Addition", i * Scale, 2 * Scale, i - n).value)]

InitialFiles ==
    {Absent, File(StoredRows(max_history_size)),
     File(StoredRows(max_history_size + 1))}

\* perform_operation with the generic handler alone: every failure wrapped
perform_except_wraps_all(e) ==
    Raise("OperationError", <<"Operation failed">> \o e.msg)

\* perform_operation without its handlers: every failure leaves as it is
perform_except_reraises(e) == e

\* the except clauses of perform_operation: a ValidationError is re-raised,
\* anything else is wrapped in an OperationError
perform_except(e) ==
    IF e.exc = "ValidationError" THEN e
    ELSE Raise("OperationError", <<"Operation failed">> \o e.msg)

\* self.undo_stack.append(CalculatorMemento(self.history.copy()))
push_memento(stack, h) == Append(stack, CalculatorMemento(h))

\* the trim taking the newest entry, pop(), instead of the oldest, pop(0)
append_calculation_pops_newest(h, calculation) ==
    LET grown == Append(h, calculation)
    IN  IF Len(grown) > max_history_size
        THEN SubSeq(grown, 1, Len(grown) - 1)
        ELSE grown

\* self.history.append(calculation), then the oldest entry is popped when the
\* history has grown past max_history_size
append_calculation(h, calculation) ==
    LET grown == Append(h, calculation)
    IN  IF Len(grown) > max_history_size THEN Tail(grown) ELSE grown

\* no REPL runs: the Calculator and the factory are called directly
NoRepl == [pc |-> "direct", command |-> "", input |-> "line"]

\* a call made directly, outside calculator_repl
Direct == UNCHANGED repl

State == [history |-> history, undo_stack |-> undo_stack,
          redo_stack |-> redo_stack, operation_strategy |-> operation_strategy]

\* what every call on the Calculator records about itself; no method of
\* the Calculator touches the factory's registry
Called(name, a, r, n) ==
    /\ operations' = operations
    /\ call' = name
    /\ args' = a
    /\ ret' = r
    /\ notified' = n
    /\ pre' = State
    /\ chain' = CASE name = "perform_operation" /\ r.ok -> 1
                  [] name = "undo" /\ chain = 1 -> 2
                  [] name = "redo" /\ chain = 2 -> 3
                  [] name = "load_history" /\ chain = 2 -> 5
                  [] name = "undo" /\ chain = 5 -> 6
                  [] name = "clear_history" -> 4
                  [] name \in {"undo", "redo"} /\ chain = 4 -> 4
                  [] OTHER -> 0

\* Calculator.__init__: empty state, then load_history with any failure
\* swallowed
Init ==
    /\ history_file \in InitialFiles
    /\ history = load_history(history_file, <<>>, 0).history
    /\ undo_stack = <<>>
    /\ redo_stack = <<>>
    /\ operation_strategy = None
    /\ observers = <<>>
    /\ now = 1
    /\ call = "__init__"
    /\ args = <<>>
    /\ ret = ReturnNone
    /\ notified = <<>>
    /\ pre = [history |-> <<>>, undo_stack |-> <<>>, redo_stack |-> <<>>,
              operation_strategy |-> None]
    /\ chain = 0
    /\ operations = seeded_operations
    /\ repl = NoRepl

\* Calculator.add_observer
AddObserver(observer) ==
    /\ Len(observers) < MaxObservers
    /\ observers' = Append(observers, observer)
    /\ Called("add_observer", <<>>, ReturnNone, <<>>)
    /\ UNCHANGED <<history, undo_stack, redo_stack, operation_strategy,
                   history_file, now>>

\* list.remove: the first occurrence goes
remove(seq, x) ==
    LET i == CHOOSE j \in 1..Len(seq) :
                 seq[j] = x /\ \A k \in 1..(j - 1) : seq[k] # x
    IN  SubSeq(seq, 1, i - 1) \o SubSeq(seq, i + 1, Len(seq))

\* Calculator.remove_observer: list.remove raises ValueError when absent
RemoveObserver(observer) ==
    /\ IF \E j \in 1..Len(observers) : observers[j] = observer
       THEN /\ observers' = remove(observers, observer)
            /\ Called("remove_observer", <<>>, ReturnNone, <<>>)
       ELSE /\ observers' = observers
            /\ Called("remove_observer", <<>>,
                      Raise("ValueError", <<"list.remove(x): x not in list">>),
                      <<>>)
    /\ UNCHANGED <<history, undo_stack, redo_stack, operation_strategy,
                   history_file, now>>

\* set_operation that also drops the undo and redo stacks
SetOperation_resets_stacks(operation) ==
    /\ operation_strategy' = operation
    /\ undo_stack' = <<>>
    /\ redo_stack' = <<>>
    /\ Called("set_operation", <<operation>>, ReturnNone, <<>>)
    /\ UNCHANGED <<history, observers, history_file, now>>

\* Calculator.set_operation
SetOperation(operation) ==
    /\ operation_strategy' = operation
    /\ Called("set_operation", <<operation>>, ReturnNone, <<>>)
    /\ UNCHANGED <<history, undo_stack, redo_stack, observers, history_file, now>>

\* a perform_operation that raises before anything is mutated
PerformFails(a, b, e) ==
    /\ Called("perform_operation", <<a, b>>, e, <<>>)
    /\ UNCHANGED <<history, undo_stack, redo_stack, operation_strategy,
                   observers, history_file, now>>

\* perform_operation whose memento holds self.history itself, not a copy of
\* it: the append and the trim that follow change the snapshot too
PerformNotified_aliases_snapshot(a, b, h, n, result) ==
    /\ undo_stack' = push_memento(undo_stack, h)
    /\ redo_stack' = <<>>
    /\ history' = h
    /\ history_file' = n.file
    /\ now' = now + 1
    /\ Called("perform_operation", <<a, b>>,
              IF n.ret.ok THEN Return(result) ELSE perform_except(n.ret),
              n.notified)
    /\ UNCHANGED <<operation_strategy, observers>>

\* perform_operation without redo_stack.clear()
PerformNotified_keeps_redo(a, b, h, n, result) ==
    /\ undo_stack' = push_memento(undo_stack, history)
    /\ redo_stack' = redo_stack
    /\ history' = h
    /\ history_file' = n.file
    /\ now' = now + 1
    /\ Called("perform_operation", <<a, b>>,
              IF n.ret.ok THEN Return(result) ELSE perform_except(n.ret),
              n.notified)
    /\ UNCHANGED <<operation_strategy, observers>>

\* the end of perform_operation: the history h now holds the Calculation,
\* the observers have been notified with outcome n, the result is returned
PerformNotified(a, b, h, n, result) ==
    /\ undo_stack' = push_memento(undo_stack, history)
    /\ redo_stack' = <<>>
    /\ history' = h
    /\ history_file' = n.file
    /\ now' = now + 1
    /\ Called("perform_operation", <<a, b>>,
              IF n.ret.ok THEN Return(result) ELSE perform_except(n.ret),
              n.notified)
    /\ UNCHANGED <<operation_strategy, observers>>

\* the observers notified before the append: they see the history as it was
PerformAppended_notifies_first(a, b, h, result, writable) ==
    PerformNotified(a, b, h,
                    notify_observers(observers, 1, history, history_file,
                                     writable),
                    result)

\* snapshot, clear redo, append and trim, then notify
PerformAppended(a, b, h, result, writable) ==
    PerformNotified(a, b, h,
                    notify_observers(observers, 1, h, history_file, writable),
                    result)

\* perform_operation taking its snapshot and clearing the redo stack before
\* it constructs the Calculation
PerformRecords_snapshots_first(a, b, calculation, result, writable) ==
    IF ~calculation.ok
    THEN /\ undo_stack' = push_memento(undo_stack, history)
         /\ redo_stack' = <<>>
         /\ Called("perform_operation", <<a, b>>, perform_except(calculation),
                   <<>>)
         /\ UNCHANGED <<history, operation_strategy, observers, history_file,
                        now>>
    ELSE PerformAppended(a, b, append_calculation(history, calculation.value),
                         result, writable)

\* the Calculation has been constructed, or its construction has failed
PerformRecords(a, b, calculation, result, writable) ==
    IF ~calculation.ok THEN PerformFails(a, b, perform_except(calculation))
    ELSE PerformAppended(a, b, append_calculation(history, calculation.value),
                         result, writable)

\* the strategy has executed on the validated operands a and b
PerformExecuted(a, b, validated_a, validated_b, result, writable) ==
    IF ~result.ok THEN PerformFails(a, b, perform_except(result))
    ELSE PerformRecords(a, b,
                        Calculation(operation_strategy, validated_a,
                                    validated_b, now),
                        result.value, writable)

\* both inputs have gone through validate_number
PerformValidated(a, b, validated_a, validated_b, writable) ==
    IF ~validated_a.ok THEN PerformFails(a, b, perform_except(validated_a))
    ELSE IF ~validated_b.ok THEN PerformFails(a, b, perform_except(validated_b))
    ELSE PerformExecuted(a, b, validated_a.value, validated_b.value,
                         execute(operation_strategy, validated_a.value,
                                 validated_b.value),
                         writable)

\* perform_operation with the "No operation set" check moved inside the try
\* block, where the generic handler wraps it
PerformOperation_guard_in_try(a, b, writable) ==
    /\ now <= MaxClock
    /\ IF operation_strategy = None
       THEN PerformFails(a, b, perform_except(
                Raise("OperationError", <<"No operation set">>)))
       ELSE PerformValidated(a, b, validate_number(a), validate_number(b),
                             writable)

\* Calculator.perform_operation(a, b)
PerformOperation(a, b, writable) ==
    /\ now <= MaxClock
    /\ IF operation_strategy = None
       THEN PerformFails(a, b, Raise("OperationError", <<"No operation set">>))
       ELSE PerformValidated(a, b, validate_number(a), validate_number(b),
                             writable)

\* Calculator.save_history; args records whether the file system lets the
\* write through
Saved(writable, s) ==
    /\ history_file' = s.file
    /\ Called("save_history", <<writable>>, s.ret, <<>>)
    /\ UNCHANGED <<history, undo_stack, redo_stack, operation_strategy,
                   observers, now>>

SaveHistory(writable) ==
    Saved(writable, save_history(history, history_file, writable))

\* load_history starting the session afresh: both stacks emptied
Loaded_resets_stacks(l) ==
    /\ history' = l.history
    /\ undo_stack' = <<>>
    /\ redo_stack' = <<>>
    /\ Called("load_history", <<>>, l.ret, <<>>)
    /\ UNCHANGED <<operation_strategy, observers, history_file, now>>

\* Calculator.load_history
Loaded(l) ==
    /\ history' = l.history
    /\ Called("load_history", <<>>, l.ret, <<>>)
    /\ UNCHANGED <<undo_stack, redo_stack, operation_strategy, observers,
                   history_file, now>>

LoadHistory == Loaded(load_history(history_file, history, now))

\* clear_history emptying the history alone
ClearHistory_keeps_stacks ==
    /\ history' = <<>>
    /\ undo_stack' = undo_stack
    /\ redo_stack' = redo_stack
    /\ Called("clear_history", <<>>, ReturnNone, <<>>)
    /\ UNCHANGED <<operation_strategy, observers, history_file, now>>

\* clear_history forgetting the selected operation as well
ClearHistory_resets_operation ==
    /\ history' = <<>>
    /\ undo_stack' = <<>>
    /\ redo_stack' = <<>>
    /\ operation_strategy' = None
    /\ Called("clear_history", <<>>, ReturnNone, <<>>)
    /\ UNCHANGED <<observers, history_file, now>>

\* Calculator.clear_history
ClearHistory ==
    /\ history' = <<>>
    /\ undo_stack' = <<>>
    /\ redo_stack' = <<>>
    /\ Called("clear_history", <<>>, ReturnNone, <<>>)
    /\ UNCHANGED <<operation_strategy, observers, history_file, now>>

\* undo taking the oldest snapshot, pop(0), instead of the newest
Undo_pops_oldest ==
    /\ IF undo_stack = <<>>
       THEN /\ Called("undo", <<>>, ReturnBool(FALSE), <<>>)
            /\ UNCHANGED <<history, undo_stack, redo_stack>>
       ELSE /\ undo_stack' = Tail(undo_stack)
            /\ redo_stack' = push_memento(redo_stack, history)
            /\ history' = undo_stack[1].history
            /\ Called("undo", <<>>, ReturnBool(TRUE), <<>>)
    /\ UNCHANGED <<operation_strategy, observers, history_file, now>>

\* undo without its guard: list.pop on the empty stack raises IndexError
Undo_unguarded ==
    /\ IF undo_stack = <<>>
       THEN /\ Called("undo", <<>>,
                      Raise("IndexError", <<"pop from empty list">>), <<>>)
            /\ UNCHANGED <<history, undo_stack, redo_stack>>
       ELSE /\ undo_stack' = SubSeq(undo_stack, 1, Len(undo_stack) - 1)
            /\ redo_stack' = push_memento(redo_stack, history)
            /\ history' = undo_stack[Len(undo_stack)].history
            /\ Called("undo", <<>>, ReturnBool(TRUE), <<>>)
    /\ UNCHANGED <<operation_strategy, observers, history_file, now>>

\* Calculator.undo
Undo ==
    /\ IF undo_stack = <<>>
       THEN /\ Called("undo", <<>>, ReturnBool(FALSE), <<>>)
            /\ UNCHANGED <<history, undo_stack, redo_stack>>
       ELSE LET memento == undo_stack[Len(undo_stack)]
            IN  /\ undo_stack' = SubSeq(undo_stack, 1, Len(undo_stack) - 1)
                /\ redo_stack' = push_memento(redo_stack, history)
                /\ history' = memento.history
                /\ Called("undo", <<>>, ReturnBool(TRUE), <<>>)
    /\ UNCHANGED <<operation_strategy, observers, history_file, now>>

\* redo that moves the snapshot between the stacks but never restores it
Redo_without_restore ==
    /\ IF redo_stack = <<>>
       THEN /\ Called("redo", <<>>, ReturnBool(FALSE), <<>>)
            /\ UNCHANGED <<history, undo_stack, redo_stack>>
       ELSE /\ redo_stack' = SubSeq(redo_stack, 1, Len(redo_stack) - 1)
            /\ undo_stack' = push_memento(undo_stack, history)
            /\ history' = history
            /\ Called("redo", <<>>, ReturnBool(TRUE), <<>>)
    /\ UNCHANGED <<operation_strategy, observers, history_file, now>>

\* redo saving the snapshot it restores instead of the history it replaces
Redo_pushes_restored ==
    /\ IF redo_stack = <<>>
       THEN /\ Called("redo", <<>>, ReturnBool(FALSE), <<>>)
            /\ UNCHANGED <<history, undo_stack, redo_stack>>
       ELSE LET memento == redo_stack[Len(redo_stack)]
            IN  /\ redo_stack' = SubSeq(redo_stack, 1, Len(redo_stack) - 1)
                /\ undo_stack' = push_memento(undo_stack, memento.history)
                /\ history' = memento.history
                /\ Called("redo", <<>>, ReturnBool(TRUE), <<>>)
    /\ UNCHANGED <<operation_strategy, observers, history_file, now>>

\* Calculator.redo
Redo ==
    /\ IF redo_stack = <<>>
       THEN /\ Called("redo", <<>>, ReturnBool(FALSE), <<>>)
            /\ UNCHANGED <<history, undo_stack, redo_stack>>
       ELSE LET memento == redo_stack[Len(redo_stack)]
            IN  /\ redo_stack' = SubSeq(redo_stack, 1, Len(redo_stack) - 1)
                /\ undo_stack' = push_memento(undo_stack, history)
                /\ history' = memento.history
                /\ Called("redo", <<>>, ReturnBool(TRUE), <<>>)
    /\ UNCHANGED <<operation_strategy, observers, history_file, now>>

Next ==
    \/ \E observer \in ObserverKinds : AddObserver(observer) /\ Direct
    \/ \E observer \in ObserverKinds : RemoveObserver(observer) /\ Direct
    \/ \E operation \in Strategies : SetOperation(operation) /\ Direct
    \/ \E a \in RawInputs, b \in RawInputs, writable \in BOOLEAN :
           PerformOperation(a, b, writable) /\ Direct
    \/ \E writable \in BOOLEAN : SaveHistory(writable) /\ Direct
    \/ LoadHistory /\ Direct
    \/ ClearHistory /\ Direct
    \/ Undo /\ Direct
    \/ Redo /\ Direct

Spec == Init /\ [][Next]_vars

(***************************************************************************)
(* Persistence on its own: a Calculator some way into a session, whose     *)
(* history was built by perform_operation, next to a history file that may *)
(* have been written by another session or edited by hand.                 *)
(***************************************************************************)
\* one tenth, a decimal that no binary float holds
Tenth == Scale \div 10

\* histories left by perform_operation under Addition and Division
StoreHistories ==
    {<<>>,
     <<Calculation("Division", 2 * Scale, 2 * Scale, 0).value>>,
     <<Calculation("Addition", Tenth, 2 * Scale, 0).value>>,
     <<Calculation("Division", 2 * Scale, 2 * Scale, -1).value,
       Calculation("Addition", Tenth, 2 * Scale, 0).value>>}

\* a well-formed row: Addition(1, 2) stored at time -2
GoodRow == ToRow(Calculation("Addition", Scale, 2 * Scale, -2).value)

\* rows that are not well-formed, or that the Calculation record refuses
BadRows ==
    {[GoodRow EXCEPT !.operand1 = TextCell],
     [GoodRow EXCEPT !.operand2 = NaCell],
     [GoodRow EXCEPT !.result = TextCell],
     [GoodRow EXCEPT !.result = NaCell],
     [GoodRow EXCEPT !.timestamp = TextCell],
     [GoodRow EXCEPT !.timestamp = NaCell],
     [GoodRow EXCEPT !.operation = "Division", !.operand2 = NumberCell(0)],
     [GoodRow EXCEPT !.operation = "NewOperation"]}

\* the files: missing, header only, well-formed rows (one with a stale
\* result, one with a fractional operand), and a good row followed by a bad one
StoreFiles ==
    {Absent, File(<<>>), File(<<GoodRow>>), File(<<GoodRow, Stale(GoodRow)>>),
     File(<<[GoodRow EXCEPT !.operand1 = NumberCell(Tenth)]>>)}
    \cup {File(<<GoodRow, bad>>) : bad \in BadRows}

StoreInit ==
    /\ history \in StoreHistories
    /\ history_file \in StoreFiles
    /\ undo_stack = <<>>
    /\ redo_stack = <<>>
    /\ operation_strategy = None
    /\ observers = <<>>
    /\ now = 1
    /\ call = "__init__"
    /\ args = <<>>
    /\ ret = ReturnNone
    /\ notified = <<>>
    /\ pre = [history |-> <<>>, undo_stack |-> <<>>, redo_stack |-> <<>>,
              operation_strategy |-> None]
    /\ chain = 0
    /\ operations = seeded_operations
    /\ repl = NoRepl

StoreNext ==
    \/ \E writable \in BOOLEAN : SaveHistory(writable) /\ Direct
    \/ LoadHistory /\ Direct

StoreSpec == StoreInit /\ [][StoreNext]_vars

(***************************************************************************)
(* Construction: a CalculatorConfig built from optional arguments and the  *)
(* environment, and a Calculator constructed from it next to a history     *)
(* file.  An optional value is <<>> for None or unset and <<v>> for v.      *)
(***************************************************************************)
\* the defaults CalculatorConfig falls back on
DefaultMaxHistorySize == 1000
DefaultPrecision == 10
\* Decimal('1e999') is beyond the integers of the checker; validate reads
\* its sign only, and a large positive number stands for it
DefaultMaxInputValue == 10 ^ 9

\* os.getenv(name, default), converted by int() or Decimal()
getenv(env, default) == IF env = <<>> THEN default ELSE env[1]

\* `given or fallback': None and 0 are both falsy
Or(given, fallback) ==
    IF given = <<>> \/ given[1] = 0 THEN fallback ELSE given[1]

\* CalculatorConfig.__init__ under the environment environ
CalculatorConfig(max_history_size_, precision, max_input_value_, environ) ==
    [max_history_size |->
         Or(max_history_size_,
            getenv(environ.CALCULATOR_MAX_HISTORY_SIZE, DefaultMaxHistorySize)),
     precision |->
         Or(precision, getenv(environ.CALCULATOR_PRECISION, DefaultPrecision)),
     max_input_value |->
         Or(max_input_value_,
            getenv(environ.CALCULATOR_MAX_INPUT_VALUE, DefaultMaxInputValue))]

\* validate that lets a zero through
validate_allows_zero(config) ==
    IF config.max_history_size < 0
    THEN Raise("ConfigurationError", <<"max_history_size must be positive">>)
    ELSE IF config.precision < 0
    THEN Raise("ConfigurationError", <<"precision must be positive">>)
    ELSE IF config.max_input_value < 0
    THEN Raise("ConfigurationError", <<"max_input_value must be positive">>)
    ELSE ReturnNone

\* CalculatorConfig.validate
validate(config) ==
    IF config.max_history_size <= 0
    THEN Raise("ConfigurationError", <<"max_history_size must be positive">>)
    ELSE IF config.precision <= 0
    THEN Raise("ConfigurationError", <<"precision must be positive">>)
    ELSE IF config.max_input_value <= 0
    THEN Raise("ConfigurationError", <<"max_input_value must be positive">>)
    ELSE ReturnNone

\* the arguments handed to CalculatorConfig and the values the environment
\* variables may have
OptionalSizes == {<<>>, <<-1>>, <<0>>, <<max_history_size>>}
OptionalPrecisions == {<<>>, <<-1>>, <<0>>, <<DecimalPlaces>>}
OptionalValues == {<<>>, <<-1>>, <<0>>, <<max_input_value>>}
Environs ==
    [CALCULATOR_MAX_HISTORY_SIZE : {<<>>, <<0>>},
     CALCULATOR_PRECISION : {<<>>, <<0>>},
     CALCULATOR_MAX_INPUT_VALUE : {<<>>, <<0>>}]

Configs ==
    {CalculatorConfig(m, p, v, environ) :
        m \in OptionalSizes, p \in OptionalPrecisions, v \in OptionalValues,
        environ \in Environs}

\* an attribute of a Calculator that does not exist: nothing has been
\* constructed, or __init__ raised before the line that sets it
Undefined == "Undefined"

\* Calculator.__init__ has raised e before any attribute but config is set
ConstructFails(config, e) ==
    /\ history' = <<>>
    /\ undo_stack' = <<>>
    /\ redo_stack' = <<>>
    /\ operation_strategy' = Undefined
    /\ observers' = <<>>
    /\ call' = "__init__"
    /\ args' = <<config>>
    /\ ret' = e
    /\ UNCHANGED <<history_file, now, notified, pre, chain, operations>>

\* Calculator.__init__ past validate: the attributes are set, then
\* load_history runs with outcome l, a failure of which is logged only
Constructed(config, l) ==
    /\ history' = l.history
    /\ undo_stack' = <<>>
    /\ redo_stack' = <<>>
    /\ operation_strategy' = None
    /\ observers' = <<>>
    /\ call' = "__init__"
    /\ args' = <<config>>
    /\ ret' = ReturnNone
    /\ UNCHANGED <<history_file, now, notified, pre, chain, operations>>

\* Calculator(config)
Construct(config) ==
    IF ~validate(config).ok THEN ConstructFails(config, validate(config))
    ELSE Constructed(config, load_history(history_file, <<>>, 0))

\* nothing is constructed yet; the history file is whatever an earlier
\* session or an editor left
ConstructInit ==
    /\ history_file \in StoreFiles
    /\ history = <<>>
    /\ undo_stack = <<>>
    /\ redo_stack = <<>>
    /\ operation_strategy = Undefined
    /\ observers = <<>>
    /\ now = 1
    /\ call = "start"
    /\ args = <<>>
    /\ ret = ReturnNone
    /\ notified = <<>>
    /\ pre = [history |-> <<>>, undo_stack |-> <<>>, redo_stack |-> <<>>,
              operation_strategy |-> None]
    /\ chain = 0
    /\ operations = seeded_operations
    /\ repl = NoRepl

ConstructNext ==
    \/ \E config \in Configs : Construct(config) /\ Direct
    \/ operation_strategy # Undefined /\ LoadHistory /\ Direct

ConstructSpec == ConstructInit /\ [][ConstructNext]_vars

(***************************************************************************)
(* The factory and the strategies on their own: a caller that registers    *)
(* and creates operations, and a caller that executes a strategy on two    *)
(* Decimals.                                                               *)
(***************************************************************************)
\* the Decimals handed to execute: whole numbers and halves of either sign
\* first, whole numbers second
FirstOperands ==
    {-2 * Scale, -Scale, -FloatUlp, 0, FloatUlp, Scale, 2 * Scale}
SecondOperands == {-2 * Scale, -Scale, 0, Scale, 2 * Scale}

\* the names and classes handed to register_operation
RegisterNames == {"new_op", "NEW_OP", "ADD"}
RegisterClasses == {"NewOperation", "Subtraction"} \cup OtherClasses

\* what a call outside the Calculator records about itself
Applied(name, a, r) ==
    /\ call' = name
    /\ args' = a
    /\ ret' = r
    /\ notified' = <<>>
    /\ pre' = State
    /\ chain' = 0
    /\ UNCHANGED <<history, undo_stack, redo_stack, operation_strategy,
                   observers, history_file, now>>

Registered(name, operation_class, r) ==
    /\ operations' = r.operations
    /\ Applied("register_operation", <<name, operation_class>>, r.ret)

\* OperationFactory.register_operation(name, operation_class)
RegisterOperation(name, operation_class) ==
    Registered(name, operation_class,
               register_operation(operations, name, operation_class))

\* OperationFactory.create_operation(operation_type)
CreateOperation(operation_type) ==
    /\ operations' = operations
    /\ Applied("create_operation", <<operation_type>>,
               create_operation(operations, operation_type))

\* strategy.execute(a, b) on an instance of the class op
Execute(op, a, b) ==
    /\ operations' = operations
    /\ Applied("execute", <<op, a, b>>, execute(op, a, b))

\* what the caller of Calculation(...) gets: the record, seen through its
\* result, or the exception of __post_init__
constructed(c) == IF c.ok THEN Return(c.value.result) ELSE c

\* Calculation(operation, operand1, operand2) constructed directly
NewCalculation(operation, operand1, operand2) ==
    /\ operations' = operations
    /\ Applied("Calculation", <<operation, operand1, operand2>>,
               constructed(Calculation(operation, operand1, operand2, now)))

FactoryInit == Init /\ history_file = Absent

FactoryNext ==
    \/ \E name \in RegisterNames, operation_class \in RegisterClasses :
           RegisterOperation(name, operation_class) /\ Direct
    \/ \E operation_type \in Identifiers :
           CreateOperation(operation_type) /\ Direct

FactorySpec == FactoryInit /\ [][FactoryNext]_vars

StrategyInit == Init /\ history_file = Absent

StrategyNext ==
    \E op \in BuiltinStrategies \cup MissingStrategies \cup CustomStrategies,
       a \in FirstOperands, b \in SecondOperands :
           \/ Execute(op, a, b) /\ Direct
           \/ NewCalculation(op, a, b) /\ Direct

StrategySpec == StrategyInit /\ [][StrategyNext]_vars

(***************************************************************************)
(* A Calculator used with the strategies that refuse a zero second         *)
(* operand.                                                                *)
(***************************************************************************)
ZeroDivisorStrategies ==
    {"Division", "Modulus", "IntegerDivision", "PercentageCalculation"}

\* the raw inputs of this session: a first operand of either sign or zero,
\* a second operand that is zero or not
DivisorInputs == {Number(-2), Number(0), Number(2)}
Divisors == {Number(0), Number(2)}

\* a Calculator constructed with no history file
DivisorInit == Init /\ ~history_file.exists

DivisorNext ==
    \/ \E operation \in ZeroDivisorStrategies :
           SetOperation(operation) /\ Direct
    \/ \E a \in DivisorInputs, b \in Divisors, writable \in BOOLEAN :
           PerformOperation(a, b, writable) /\ Direct

DivisorSpec == DivisorInit /\ [][DivisorNext]_vars

(***************************************************************************)
(* Calculation records compared: the entries of a history, as performed or *)
(* as loaded from the history file, compared with each other and with a    *)
(* record constructed anew from the same operation and operands.           *)
(***************************************************************************)
\* c == d for two Calculations
Equals(c, d) ==
    /\ operations' = operations
    /\ Applied("__eq__", <<c, d>>, ReturnBool(CalculationEq(c, d)))

\* the entry c of the history compared with Calculation(c.operation,
\* c.operand1, c.operand2) constructed now
EqualsAnew(c) ==
    Equals(c, Calculation(c.operation, c.operand1, c.operand2, now).value)

RecordNext ==
    \/ LoadHistory /\ Direct
    \/ \E i \in 1..Len(history), j \in 1..Len(history) :
           Equals(history[i], history[j]) /\ Direct
    \/ \E i \in 1..Len(history) : EqualsAnew(history[i]) /\ Direct

RecordSpec == StoreInit /\ [][RecordNext]_vars

(***************************************************************************)
(* perform_operation under each strategy class of app.operations, on a     *)
(* Calculator without observers and without a history file.                *)
(***************************************************************************)
CatalogInputs == {Number(-2), Number(0), Number(2)}

CatalogInit == Init /\ ~history_file.exists

CatalogNext ==
    \/ \E operation \in BuiltinStrategies : SetOperation(operation) /\ Direct
    \/ \E a \in CatalogInputs, b \in CatalogInputs :
           PerformOperation(a, b, TRUE) /\ Direct

CatalogSpec == CatalogInit /\ [][CatalogNext]_vars

(***************************************************************************)
(* calculator_repl: one Calculator with a LoggingObserver and an           *)
(* AutoSaveObserver, driven by the commands typed at its prompt.  The loop *)
(* stands at the prompt ("input"), between set_operation and               *)
(* perform_operation of an arithmetic command ("perform"), or has been     *)
(* left ("done").                                                          *)
(***************************************************************************)
\* the arithmetic commands typed in a session: one the factory knows and
\* one it does not
TypedArithmetic == {"divide", "modulus"}

\* the operands typed: a zero divisor is what perform_operation rejects
TypedOperands == {Number(0), Number(2)}

\* commands that only print, as help does: history and a line that is no
\* command
PrintingCommands == {"history", "quit"}

\* what input() does besides returning a line
InputErrors == {"EOFError", "KeyboardInterrupt"}

\* except Exception: every exception of the model but KeyboardInterrupt
IsException(e) == e # "KeyboardInterrupt"

\* the handlers around the body of the loop
outer(e) ==
    CASE e = "KeyboardInterrupt" -> "input"
      [] e = "EOFError" -> "done"
      [] OTHER -> "input"

\* the exit command leaving an exception of save_history to the handlers
\* around the loop body
exit_command_unguarded(r) == IF r.ok THEN "done" ELSE outer(r.exc)

\* the exit command after its save_history returned or raised r
exit_command(r) == IF r.ok \/ IsException(r.exc) THEN "done" ELSE outer(r.exc)

\* the save and load commands after their call returned or raised r
guarded_command(r) ==
    IF r.ok \/ IsException(r.exc) THEN "input" ELSE outer(r.exc)

\* the clear, undo and redo commands: no handler of their own
plain_command(r) == IF r.ok THEN "input" ELSE outer(r.exc)

\* an arithmetic command after r was returned or raised inside its try
arithmetic_command(r) ==
    IF r.ok THEN "input"
    ELSE IF r.exc \in {"ValidationError", "OperationError"} THEN "input"
    ELSE IF IsException(r.exc) THEN "input"
    ELSE outer(r.exc)

\* the loop moves to pc_ having read command_, input() having done input_
Looped(pc_, command_, input_) ==
    repl' = [pc |-> pc_, command |-> command_, input |-> input_]

\* the Calculator and the factory are left alone
Untouched ==
    UNCHANGED <<history, undo_stack, redo_stack, operation_strategy,
                observers, history_file, now, call, args, ret, notified,
                pre, chain, operations>>

\* the prompt for a command raises instead of returning a line
ReplInputRaises(e) ==
    /\ repl.pc = "input"
    /\ Looped(outer(e), repl.command, e)
    /\ Untouched

\* help, history, or a line that is no command
ReplPrints(c) ==
    /\ repl.pc = "input"
    /\ Looped("input", c, "line")
    /\ Untouched

ReplExit(writable) ==
    /\ repl.pc = "input"
    /\ SaveHistory(writable)
    /\ Looped(exit_command(ret'), "exit", "line")

ReplClear ==
    /\ repl.pc = "input"
    /\ ClearHistory
    /\ Looped(plain_command(ret'), "clear", "line")

ReplUndo ==
    /\ repl.pc = "input"
    /\ Undo
    /\ Looped(plain_command(ret'), "undo", "line")

ReplRedo ==
    /\ repl.pc = "input"
    /\ Redo
    /\ Looped(plain_command(ret'), "redo", "line")

ReplSave(writable) ==
    /\ repl.pc = "input"
    /\ SaveHistory(writable)
    /\ Looped(guarded_command(ret'), "save", "line")

ReplLoad ==
    /\ repl.pc = "input"
    /\ LoadHistory
    /\ Looped(guarded_command(ret'), "load", "line")

\* an arithmetic command whose prompt for an operand gets 'cancel' or
\* raises
ReplCancelled(c, e) ==
    /\ repl.pc = "input"
    /\ IF e = "cancel"
       THEN Looped("input", c, "line")
       ELSE Looped(arithmetic_command(Raise(e, <<>>)), c, e)
    /\ Untouched

\* an arithmetic command up to set_operation: the factory is asked for the
\* strategy, and perform_operation is next when it gave one
ReplSelects(c, r) ==
    /\ repl.pc = "input"
    /\ now <= MaxClock
    /\ IF r.ok
       THEN /\ SetOperation(r.value)
            /\ Looped("perform", c, "line")
       ELSE /\ operations' = operations
            /\ Applied("create_operation", <<c>>, r)
            /\ Looped(arithmetic_command(r), c, "line")

ReplSelect(c) == ReplSelects(c, create_operation(operations, c))

\* the rest of the arithmetic command: perform_operation on the operands
\* read before
ReplPerform(a, b, writable) ==
    /\ repl.pc = "perform"
    /\ PerformOperation(a, b, writable)
    /\ Looped(arithmetic_command(ret'), repl.command, "line")

\* Calculator(), add_observer(LoggingObserver()),
\* add_observer(AutoSaveObserver(calc)), and the loop at its first prompt
ReplInit ==
    /\ history_file \in InitialFiles
    /\ history = load_history(history_file, <<>>, 0).history
    /\ undo_stack = <<>>
    /\ redo_stack = <<>>
    /\ operation_strategy = None
    /\ observers = <<"LoggingObserver", "AutoSaveObserver">>
    /\ now = 1
    /\ call = "add_observer"
    /\ args = <<>>
    /\ ret = ReturnNone
    /\ notified = <<>>
    /\ pre = [history |-> history, undo_stack |-> <<>>, redo_stack |-> <<>>,
              operation_strategy |-> None]
    /\ chain = 0
    /\ operations = seeded_operations
    /\ repl = [pc |-> "input", command |-> "", input |-> "line"]

ReplNext ==
    \/ \E e \in InputErrors : ReplInputRaises(e)
    \/ \E c \in PrintingCommands : ReplPrints(c)
    \/ \E writable \in BOOLEAN : ReplExit(writable)
    \/ ReplClear
    \/ ReplUndo
    \/ ReplRedo
    \/ \E writable \in BOOLEAN : ReplSave(writable)
    \/ ReplLoad
    \/ \E c \in TypedArithmetic, e \in InputErrors \cup {"cancel"} :
           ReplCancelled(c, e)
    \/ \E c \in TypedArithmetic : ReplSelect(c)
    \/ \E a \in TypedOperands, b \in TypedOperands, writable \in BOOLEAN :
           ReplPerform(a, b, writable)

ReplSpec == ReplInit /\ [][ReplNext]_vars

(***************************************************************************)
(* Properties.  `pre' is the Calculator's state before the last call,      *)
(* `args' that call's raw inputs and `ret' its outcome.                    *)
(***************************************************************************)

Performed == call = "perform_operation"
Succeeded == Performed /\ ret.ok

\* the raw inputs the specification says are refused: text that is no
\* number, and numbers whose magnitude is above max_input_value
BadInput(raw) ==
    raw.kind # "number" \/ Abs(raw.number) > max_input_value * Scale

\* the operands the specification says each strategy refuses
Rejects(op, a, b) ==
    \/ op = "Division" /\ b = 0
    \/ op = "Power" /\ b < 0
    \/ op = "Root" /\ (a < 0 \/ b = 0)

\* the last call was a perform_operation with valid inputs which the
\* selected strategy refuses
StrategyRejected ==
    /\ Performed
    /\ pre.operation_strategy # None
    /\ ~BadInput(args[1])
    /\ ~BadInput(args[2])
    /\ Rejects(pre.operation_strategy, args[1].number, args[2].number)

\* C1: an undo right after a perform_operation that returned returns True
\* and leaves the history equal to the history before that perform, also when
\* the perform evicted the oldest entry.
C1_UndoRestores ==
    [][(Succeeded /\ call' = "undo")
           => (ret' = ReturnBool(TRUE) /\ history' = pre.history)]_vars

\* an undo has followed a perform that evicted the oldest entry of a full
\* history
C1_Witness ==
    /\ chain = 2
    /\ ret.flag
    /\ Len(history) = max_history_size
    /\ Len(pre.history) = max_history_size
    /\ history # pre.history

\* C2: after a perform_operation that returned and an undo right after it, a
\* redo right after the undo returns True and leaves the history equal to the
\* history after the perform.
C2_RedoRestores ==
    [][(chain = 2 /\ call' = "redo")
           => (ret' = ReturnBool(TRUE) /\ history' = pre.history)]_vars

\* perform, undo and redo have been called one right after the other, and the
\* redone entry is back
C2_Witness ==
    /\ chain = 3
    /\ ret.flag
    /\ history # <<>>
    /\ history # pre.history

\* C3: the history never holds more than max_history_size entries.
C3_HistoryBounded == Len(history) <= max_history_size

\* C4: a perform_operation that raises leaves the history, the undo stack and
\* the redo stack as they were before the call.
C4_PerformAtomic ==
    (Performed /\ ~ret.ok)
        => /\ history = pre.history
           /\ undo_stack = pre.undo_stack
           /\ redo_stack = pre.redo_stack

\* C5: every perform_operation that returns leaves the redo stack empty, and
\* a redo right after it returns False.
C5_RedoCleared ==
    [][/\ (call' = "perform_operation" /\ ret'.ok) => redo_stack' = <<>>
       /\ (Succeeded /\ call' = "redo") => ret' = ReturnBool(FALSE)]_vars

\* a perform has returned in a state reached through undos, whose redo stack
\* was not empty
C5_Witness ==
    /\ Succeeded
    /\ pre.redo_stack # <<>>
    /\ redo_stack = <<>>

\* C6: undo on an empty undo stack and redo on an empty redo stack return
\* False without raising, and leave the history, both stacks and the selected
\* operation unchanged.
C6_EmptyStacks ==
    /\ (call = "undo" /\ pre.undo_stack = <<>>)
           => (ret = ReturnBool(FALSE) /\ State = pre)
    /\ (call = "redo" /\ pre.redo_stack = <<>>)
           => (ret = ReturnBool(FALSE) /\ State = pre)

\* undo was called on an empty undo stack while the history, the redo stack
\* and the selected operation all held something
C6_Witness ==
    /\ call = "undo"
    /\ pre.undo_stack = <<>>
    /\ pre.redo_stack # <<>>
    /\ pre.history # <<>>
    /\ pre.operation_strategy # None

\* C7: a perform_operation that returns when the history held exactly
\* max_history_size entries leaves the previous history without its first
\* entry, followed by the new Calculation as the last entry.
C7_Eviction ==
    (Succeeded /\ Len(pre.history) = max_history_size)
        => /\ Len(history) = max_history_size
           /\ \A i \in 1..(max_history_size - 1) : history[i] = pre.history[i + 1]
           /\ history[max_history_size] =
                  [operation |-> pre.operation_strategy,
                   operand1 |-> args[1].number,
                   operand2 |-> args[2].number,
                   result |-> ret.value,
                   timestamp |-> now - 1]

\* a perform has returned on a full history
C7_Witness ==
    /\ Succeeded
    /\ Len(pre.history) = max_history_size
    /\ history # pre.history

\* C8: perform_operation with no operation selected raises OperationError
\* 'No operation set' and changes nothing: history, stacks and selected
\* operation are as before, and no observer is notified.
C8_NoOperationSet ==
    (Performed /\ pre.operation_strategy = None)
        => /\ ret = Raise("OperationError", <<"No operation set">>)
           /\ State = pre
           /\ notified = <<>>

\* perform was called with no operation selected on a Calculator that has
\* observers and a history
C8_Witness ==
    /\ Performed
    /\ pre.operation_strategy = None
    /\ observers # <<>>
    /\ pre.history # <<>>

C10_InputRejected ==
    (Performed /\ pre.operation_strategy # None
        /\ (BadInput(args[1]) \/ BadInput(args[2])))
        => /\ ~ret.ok
           /\ ret.exc = "ValidationError"
           /\ ret.msg \in {<<"Invalid number format">>,
                           <<"Value exceeds maximum allowed">>}
           /\ State = pre
           /\ notified = <<>>

\* an oversized second operand was handed to Division together with a valid
\* first one, on a Calculator that has a history
C10_Witness ==
    /\ Performed
    /\ pre.operation_strategy = "Division"
    /\ ~BadInput(args[1])
    /\ args[2].kind = "number"
    /\ BadInput(args[2])
    /\ pre.history # <<>>

\* a perform_operation during which an observer's update raised: the
\* failures that come before the notification notify nobody
ObserverFailed == Performed /\ ~ret.ok /\ notified # <<>>

C13_ObserverSees ==
    (Succeeded /\ \E i \in 1..Len(notified) : notified[i] = "AutoSaveObserver")
        => /\ undo_stack = Append(pre.undo_stack, CalculatorMemento(pre.history))
           /\ redo_stack = <<>>
           /\ history_file = File([i \in 1..Len(history) |-> ToRow(history[i])])
           /\ history_file.rows[Len(history)].timestamp = NumberCell(now - 1)
           /\ Len(history_file.rows) <= max_history_size

\* C14: after clear_history the history and both stacks are empty, and they
\* stay so through the undos and redos that follow right after, each of
\* which returns False.
C14_ClearIrreversible ==
    chain = 4
        => /\ history = <<>>
           /\ undo_stack = <<>>
           /\ redo_stack = <<>>
           /\ call \in {"undo", "redo"} => ret = ReturnBool(FALSE)

\* clear_history was called with a history and with both stacks holding
\* something
C14_Witness ==
    /\ call = "clear_history"
    /\ pre.history # <<>>
    /\ pre.undo_stack # <<>>
    /\ pre.redo_stack # <<>>

Loaded_ == call = "load_history"

\* a row the specification calls malformed: a field that is missing or is
\* not the text of a decimal number or of a timestamp, or operands the named
\* operation refuses, or a name that is no operation
Malformed(row) ==
    \/ row.operand1.kind # "number"
    \/ row.operand2.kind # "number"
    \/ row.result.kind # "number"
    \/ row.timestamp.kind # "number"
    \/ row.operation \notin CalculationNames
    \/ Rejects(row.operation, row.operand1.number, row.operand2.number)

\* the rows save_history writes for the history h
RowsOf(h) == [i \in 1..Len(h) |-> ToRow(h[i])]

\* C15: a load_history that returns on an existing file leaves as history
\* exactly the rows of the file, in file order, whatever the history was
\* before, also when the file holds the header alone.
C15_LoadReplaces ==
    (Loaded_ /\ ret.ok /\ history_file.exists)
        => /\ Len(history) = Len(history_file.rows)
           /\ \A i \in 1..Len(history) :
                  /\ history[i].operation = history_file.rows[i].operation
                  /\ DecimalText(history[i].operand1)
                         = history_file.rows[i].operand1
                  /\ DecimalText(history[i].operand2)
                         = history_file.rows[i].operand2
                  /\ NumberCell(history[i].timestamp)
                         = history_file.rows[i].timestamp

\* C16: load_history with no file raises nothing and leaves an empty
\* history, whatever the history was before.
C16_MissingFile ==
    (Loaded_ /\ ~history_file.exists) => (ret = ReturnNone /\ history = <<>>)

\* C17: load_history on a file with a malformed row raises OperationError and
\* leaves the history as it was before the call.
C17_MalformedFails ==
    (Loaded_ /\ history_file.exists
        /\ \E i \in 1..Len(history_file.rows) : Malformed(history_file.rows[i]))
        => /\ ~ret.ok
           /\ ret.exc = "OperationError"
           /\ history = pre.history

\* C18: load_history on the file that save_history writes for the history H
\* in memory returns and leaves a history of the same length whose entries
\* equal those of H, one by one, under Calculation equality.
C18_RoundTrip ==
    (Loaded_ /\ history_file = File(RowsOf(pre.history)))
        => /\ ret.ok
           /\ Len(history) = Len(pre.history)
           /\ \A i \in 1..Len(pre.history) :
                  CalculationEq(history[i], pre.history[i])

\* every Calculation the Calculator holds: in the history and in the
\* snapshots of both stacks
Held ==
    {history[i] : i \in 1..Len(history)}
    \cup UNION {{undo_stack[k].history[i] : i \in 1..Len(undo_stack[k].history)}
                   : k \in 1..Len(undo_stack)}
    \cup UNION {{redo_stack[k].history[i] : i \in 1..Len(redo_stack[k].history)}
                   : k \in 1..Len(redo_stack)}

\* C19: the result of every Calculation in the history and in the undo and
\* redo snapshots is what its operation gives for its operands, also for
\* entries loaded from a row whose stored result differs.
C19_ResultDetermined ==
    \A c \in Held :
        c.result = calculate(c.operation, c.operand1, c.operand2).value

\* the history holds an entry loaded from a row whose stored result differs,
\* and a snapshot holds it too
C19_Witness ==
    /\ redo_stack # <<>>
    /\ history_file.exists
    /\ \E i \in 1..Len(history) : \E j \in 1..Len(history_file.rows) :
           /\ history_file.rows[j].timestamp = NumberCell(history[i].timestamp)
           /\ history_file.rows[j].result # DecimalText(history[i].result)
           /\ \E k \in 1..Len(redo_stack) :
                  \E m \in 1..Len(redo_stack[k].history) :
                      redo_stack[k].history[m] = history[i]

\* C20: a well-formed row whose stored result differs from the computed one
\* is loaded without failure, as a Calculation with the computed result and
\* the stored timestamp.
C20_StaleResultTolerated ==
    (Loaded_ /\ history_file.exists /\ history_file.rows # <<>>
        /\ \A i \in 1..Len(history_file.rows) : ~Malformed(history_file.rows[i]))
        => /\ ret = ReturnNone
           /\ Len(history) = Len(history_file.rows)
           /\ \A i \in 1..Len(history) :
                  /\ history[i].result
                         = calculate(history[i].operation, history[i].operand1,
                                     history[i].operand2).value
                  /\ history[i].timestamp = history_file.rows[i].timestamp.number

\* a file with a stale stored result was loaded
C20_Witness ==
    /\ Loaded_
    /\ ret.ok
    /\ history_file.exists
    /\ Len(history) = Len(history_file.rows)
    /\ \E i \in 1..Len(history) :
           /\ ~Malformed(history_file.rows[i])
           /\ history_file.rows[i].result # DecimalText(history[i].result)

(***************************************************************************)
(* The strategies (StrategySpec) and the factory (FactorySpec).            *)
(***************************************************************************)
\* every snapshot of stack that is still on the stack after the step holds
\* what it held
Kept(stack, after) ==
    \A i \in 1..Len(stack) : i <= Len(after) => after[i] = stack[i]

\* C26: a snapshot on the undo or redo stack never aliases the live
\* history: a snapshot taken by a step holds the history as it was when the
\* step began, and whatever a later perform (append or eviction), clear,
\* load, undo or redo does to the history, every snapshot still on a stack
\* holds what it held.
C26_SnapshotsIndependent ==
    [][/\ Kept(undo_stack, undo_stack')
       /\ Kept(redo_stack, redo_stack')
       /\ Len(undo_stack') > Len(undo_stack)
            => undo_stack'[Len(undo_stack')].history = history
       /\ Len(redo_stack') > Len(redo_stack)
            => redo_stack'[Len(redo_stack')].history = history]_vars

\* a perform has evicted the oldest entry of a full history while two
\* snapshots are on the undo stack, the newer one holding the history as it
\* was before the eviction
C26_Witness ==
    /\ Succeeded
    /\ Len(pre.history) >= max_history_size
    /\ Len(undo_stack) >= 2
    /\ undo_stack[Len(undo_stack)].history = pre.history
    /\ undo_stack[Len(undo_stack)].history # history

\* the last call was a perform_operation under a strategy of
\* ZeroDivisorStrategies with valid inputs, the second of them zero
ZeroDivisor ==
    /\ Performed
    /\ pre.operation_strategy \in ZeroDivisorStrategies
    /\ ~BadInput(args[1])
    /\ ~BadInput(args[2])
    /\ args[2].number = 0

\* the messages that contain the words "by zero"
ByZeroTexts ==
    {"Division by zero is not allowed", "Modulus by zero is not allowed",
     "Integer division by zero is not allowed"}

C29_IdleThenReady ==
    /\ []((call = "__init__" /\ ~history_file.exists)
            => /\ history = <<>>
               /\ undo_stack = <<>>
               /\ redo_stack = <<>>
               /\ operation_strategy = None)
    /\ [][call' = "set_operation"
            => /\ ret'.ok
               /\ operation_strategy' = args'[1]
               /\ operation_strategy' # None
               /\ UNCHANGED <<history, undo_stack, redo_stack, observers,
                              history_file, operations>>]_vars

\* a Ready Calculator with a history and a snapshot has been given another
\* strategy
C29_Witness ==
    /\ call = "set_operation"
    /\ pre.operation_strategy # None
    /\ pre.operation_strategy # operation_strategy
    /\ history # <<>>
    /\ undo_stack # <<>>

\* the four fields that equality is said to be over are the same
SameFields(c, d) ==
    /\ c.operation = d.operation
    /\ c.operand1 = d.operand1
    /\ c.operand2 = d.operand2
    /\ c.result = d.result

\* C30: two Calculations are equal exactly when their operation, operand1,
\* operand2 and result are the same: two records that differ in their
\* timestamp only are equal, and two records that differ in one of the
\* four fields are not.
C30_EqualityOverFourFields ==
    call = "__eq__" => (ret.flag <=> SameFields(args[1], args[2]))

(***************************************************************************)
(* Construction (ConstructSpec).                                           *)
(***************************************************************************)
ConstructedNow == call = "__init__"

\* C27: the core never swallows an error: whenever loading the persisted
\* history fails, be it in load_history called on a Calculator or in the
\* load made while a Calculator is constructed from a valid configuration,
\* the call does not complete normally: a typed error reaches the caller.
C27_LoadFailureSurfaces ==
    /\ (call = "load_history" /\ ~load_history(history_file, <<>>, 0).ret.ok)
        => ~ret.ok
    /\ (ConstructedNow /\ validate(args[1]).ok
            /\ ~load_history(history_file, <<>>, 0).ret.ok)
        => ~ret.ok

\* the configurations the specification refuses: a numeric field that is
\* zero or negative
NonPositive(config) ==
    \/ config.max_history_size <= 0
    \/ config.precision <= 0
    \/ config.max_input_value <= 0

\* C28: a configuration whose max_history_size, precision or max_input_value
\* is zero or negative is refused with ConfigurationError when the
\* Calculator is constructed, before history, stacks, selected operation or
\* observers exist; so every Calculator that exists has three positive
\* bounds.
C28_NonPositiveRejected ==
    ConstructedNow =>
        /\ NonPositive(args[1])
            => /\ ~ret.ok
               /\ ret.exc = "ConfigurationError"
               /\ operation_strategy = Undefined
               /\ history = <<>> /\ undo_stack = <<>> /\ redo_stack = <<>>
               /\ observers = <<>>
        /\ operation_strategy # Undefined
            => /\ args[1].max_history_size > 0
               /\ args[1].precision > 0
               /\ args[1].max_input_value > 0

\* a configuration whose only fault is a zero max_history_size, taken from
\* the environment, has been refused
C28_Witness ==
    /\ ConstructedNow
    /\ args[1].max_history_size = 0
    /\ args[1].precision > 0
    /\ args[1].max_input_value > 0
    /\ ret.exc = "ConfigurationError"

Executed == call = "execute"

\* C22: Root.execute refuses every (a, b) with a < 0 with "Cannot calculate
\* root of negative number" and every (a, b) with a >= 0 and b = 0 with
\* "Zero root is undefined"; Power.execute refuses every (a, b) with b < 0
\* with "Negative exponents not supported"; each is a ValidationError, and
\* whenever a strategy's validation fails, execute ends with that
\* ValidationError and with no result of the arithmetic.
C22_RootPowerRejections ==
    Executed =>
        /\ (args[1] = "Root" /\ args[2] < 0)
            => ret = Raise("ValidationError",
                           <<"Cannot calculate root of negative number">>)
        /\ (args[1] = "Root" /\ args[2] >= 0 /\ args[3] = 0)
            => ret = Raise("ValidationError", <<"Zero root is undefined">>)
        /\ (args[1] = "Power" /\ args[3] < 0)
            => ret = Raise("ValidationError",
                           <<"Negative exponents not supported">>)
        /\ Rejects(args[1], args[2], args[3])
            => ~ret.ok /\ ret.exc = "ValidationError"

\* Root of a negative number with a zero degree has been refused
C22_Witness ==
    /\ Executed
    /\ args[1] = "Root"
    /\ args[2] < 0
    /\ args[3] = 0
    /\ ~ret.ok

Created == call = "create_operation"

\* the strategy the specification gives each command of the REPL
StrategyOf(command) ==
    CASE command = "add"        -> "Addition"
      [] command = "subtract"   -> "Subtraction"
      [] command = "multiply"   -> "Multiplication"
      [] command = "divide"     -> "Division"
      [] command = "power"      -> "Power"
      [] command = "root"       -> "Root"
      [] command = "modulus"    -> "Modulus"
      [] command = "int_divide" -> "IntegerDivision"
      [] command = "percent"    -> "PercentageCalculation"
      [] command = "abs_diff"   -> "AbsoluteDifference"

\* C23: on the registry as it is seeded, create succeeds for each of the ten
\* commands the REPL dispatches (add, subtract, multiply, divide, power,
\* root, modulus, int_divide, percent, abs_diff) and returns an instance of
\* the corresponding strategy.
C23_SeededTen ==
    (Created /\ operations = seeded_operations /\ args[1] \in Commands)
        => ret.ok /\ ret.value = StrategyOf(args[1])

\* two identifiers that differ at most in the case of their letters
CaseVariants(n, m) ==
    \E p \in LowerCase : p[1] = n /\ <<m, p[2]>> \in LowerCase

\* the classes registered under a case variant of the identifier n
RegisteredFor(ops, n) ==
    {ops[key] : key \in {k \in DOMAIN ops : CaseVariants(k, n)}} \ {None}

\* C24: create looks names up without regard to letter case: when a case
\* variant of the requested name is registered, create returns an instance
\* of the class registered under it; when none is, create fails with an
\* "Unknown operation" error that contains the identifier as requested;
\* either way the registry is unchanged.
C24_CaseInsensitiveLookup ==
    [][call' = "create_operation" =>
        /\ operations' = operations
        /\ IF RegisteredFor(operations, args'[1]) # {}
           THEN ret'.ok /\ RegisteredFor(operations, args'[1]) = {ret'.value}
           ELSE /\ ~ret'.ok
                /\ Contains(ret'.msg, "Unknown operation: ")
                /\ Contains(ret'.msg, args'[1])]_vars

\* a built-in strategy has been created under a name in capitals
C24_Witness ==
    /\ Created
    /\ args[1] = "ADD"
    /\ ret = Return("Addition")

\* C25: register(name, cls) with a cls that is no Operation strategy fails
\* and leaves the registry unchanged; with a strategy class it succeeds,
\* after which create of every case variant of name returns an instance of
\* cls, whatever was registered under the name before, and every other
\* name's registration is unchanged.
C25_Register ==
    [][call' = "register_operation" =>
        IF args'[2] \in OtherClasses
        THEN ~ret'.ok /\ operations' = operations
        ELSE /\ ret'.ok
             /\ \A v \in Identifiers :
                    CaseVariants(v, args'[1])
                        => create_operation(operations', v) = Return(args'[2])
             /\ \A key \in DOMAIN operations :
                    ~CaseVariants(key, args'[1])
                        => operations'[key] = operations[key]]_vars

\* a class has been registered over a built-in one under a name in capitals
C25_Witness ==
    /\ call = "register_operation"
    /\ args = <<"ADD", "Subtraction">>
    /\ ret.ok
    /\ operations["add"] = "Subtraction"

(***************************************************************************)
(* C32: save_history changes nothing in memory; a failed write is an       *)
(* OperationError and is not tried again.                                  *)
(***************************************************************************)
\* C32: every call of save_history leaves the history, both stacks, the
\* selected operation and the observers as they were; when the write fails
\* the caller gets an OperationError and no second attempt writes the file;
\* when it succeeds the call returns None.
C32_SaveFrame ==
    [][call' = "save_history" =>
         /\ history' = history
         /\ undo_stack' = undo_stack
         /\ redo_stack' = redo_stack
         /\ operation_strategy' = operation_strategy
         /\ observers' = observers
         /\ ~args'[1] => /\ ~ret'.ok
                         /\ ret'.exc = "OperationError"
                         /\ Contains(ret'.msg, "Failed to save history")
                         /\ history_file' = history_file
         /\ args'[1] => ret' = ReturnNone]_vars

\* a failed save with something in the history and on both stacks
C32_Witness ==
    /\ call = "save_history"
    /\ ~args[1]
    /\ ~ret.ok
    /\ history # <<>>
    /\ undo_stack # <<>>
    /\ redo_stack # <<>>

(***************************************************************************)
(* C33: the REPL loop ends on exit or end of input, and on nothing else.   *)
(***************************************************************************)
\* C33: once the loop is left the REPL takes no further step; a step of the
\* loop leaves it only when the command read is exit or input() raised
\* EOFError; a step that read any other command keeps the loop running,
\* whatever perform_operation, save_history or load_history raised; the
\* exit step calls save_history once, changes nothing else, and leaves the
\* loop whether or not the save failed.
C33_LoopRuns ==
    [][/\ repl.pc # "done"
       /\ repl'.pc = "done" =>
              repl'.command = "exit" \/ repl'.input = "EOFError"
       /\ repl'.input = "line" /\ repl'.command # "exit" =>
              repl'.pc # "done"
       /\ repl'.command = "exit" =>
              /\ repl'.pc = "done"
              /\ call' = "save_history"
              /\ pre' = State
              /\ history' = history
              /\ history_file' = IF ret'.ok THEN File(RowsOf(history))
                                 ELSE history_file]_vars

\* the loop was left by an exit whose save failed
C33_Witness ==
    /\ repl.pc = "done"
    /\ repl.command = "exit"
    /\ call = "save_history"
    /\ ~ret.ok

\* the loop still runs after an arithmetic command that raised
C33_StillRuns ==
    /\ repl.pc = "input"
    /\ repl.command = "divide"
    /\ call = "perform_operation"
    /\ ~ret.ok
    /\ ret.exc = "ValidationError"

(***************************************************************************)
(* C34: undo then redo, and redo then undo, give back the whole state.     *)
(***************************************************************************)
\* C34: a redo right after an undo that returned True, and an undo right
\* after a redo that returned True, return True and leave the history, the
\* undo stack and the redo stack, snapshot by snapshot and in order, as they
\* were before the first call of the pair.
C34_RoundTrip ==
    [][(/\ ret = ReturnBool(TRUE)
        /\ \/ call = "undo" /\ call' = "redo"
           \/ call = "redo" /\ call' = "undo")
           => /\ ret' = ReturnBool(TRUE)
              /\ history' = pre.history
              /\ undo_stack' = pre.undo_stack
              /\ redo_stack' = pre.redo_stack]_vars

\* perform, perform, undo, redo: two different snapshots are back on the
\* undo stack
C34_Witness ==
    /\ chain = 3
    /\ call = "redo"
    /\ ret.flag
    /\ Len(undo_stack) = 2
    /\ undo_stack[1] # undo_stack[2]

\* an undo has followed a redo, with a snapshot on either stack
C34_RedoUndone ==
    /\ call = "undo"
    /\ ret.flag
    /\ pre.undo_stack # <<>>
    /\ Len(pre.undo_stack) = Len(undo_stack) + 1
    /\ Len(redo_stack) = 2

(***************************************************************************)
(* C35: persistence stays clear of the stacks, so an undo after a load     *)
(* goes to whatever snapshot is on top of the undo stack.                  *)
(***************************************************************************)
\* load_history and save_history leave both stacks and the selected
\* operation as they were
PersistenceFrame ==
    call' \in {"load_history", "save_history"}
        => /\ undo_stack' = undo_stack
           /\ redo_stack' = redo_stack
           /\ operation_strategy' = operation_strategy

\* C35 as claimed: load and save leave the stacks and the operation alone,
\* and after perform, undo, load an undo makes the history the snapshot
\* taken before that perform, the most recent one.
C35_Original ==
    [][/\ PersistenceFrame
       /\ chain = 5 /\ call' = "undo" => history' = pre.history]_vars

\* C35: load and save leave the stacks and the operation alone; a perform
\* that returns leaves the history it started from on top of the undo
\* stack; an undo right after a load restores the snapshot on top of the
\* undo stack and saves the loaded history on the redo stack, and with an
\* empty undo stack it returns False and the loaded history stays.
C35_LoadNotUndoable ==
    [][/\ PersistenceFrame
       /\ call' = "perform_operation" /\ ret'.ok =>
              /\ undo_stack' # <<>>
              /\ undo_stack'[Len(undo_stack')].history = history
       /\ call = "load_history" /\ call' = "undo" =>
              IF undo_stack = <<>>
              THEN ret' = ReturnBool(FALSE) /\ history' = history
              ELSE /\ ret' = ReturnBool(TRUE)
                   /\ history' = undo_stack[Len(undo_stack)].history
                   /\ redo_stack' =
                          Append(redo_stack, [history |-> history])]_vars

\* perform, undo, load, undo: the second undo found the undo stack empty
\* and the loaded history, which is not the one before the perform, stays
C35_Witness ==
    /\ chain = 6
    /\ call = "undo"
    /\ ~ret.flag
    /\ pre.history = history
    /\ history # <<>>

\* perform, perform, undo, load, undo: the second undo put the loaded
\* history on the redo stack
C35_LoadedUndone ==
    /\ chain = 6
    /\ call = "undo"
    /\ ret.flag
    /\ redo_stack # <<>>
    /\ redo_stack[Len(redo_stack)].history = pre.history
    /\ pre.history # history
    /\ pre.history # <<>>

(***************************************************************************)
(* C36: in the REPL, where the AutoSaveObserver is registered, the file    *)
(* follows the history at every perform and at nothing else but save.      *)
(***************************************************************************)
\* C36: with the AutoSaveObserver registered and auto_save on, right after
\* a perform_operation that returned the file holds exactly the rows of the
\* history as it is after the append and the trim; undo, redo and
\* clear_history leave the file as it was.
C36_AutoSaved ==
    /\ [](Succeeded /\ Contains(observers, "AutoSaveObserver") /\ auto_save
              => history_file = File(RowsOf(history)))
    /\ [][call' \in {"undo", "redo", "clear_history"}
              => history_file' = history_file]_vars

\* a perform on a full history has returned: the file holds the history
\* without the evicted entry
C36_Witness ==
    /\ Succeeded
    /\ Contains(observers, "AutoSaveObserver")
    /\ Len(pre.history) = max_history_size
    /\ Len(history) = max_history_size
    /\ history_file = File(RowsOf(history))

\* after an undo the file still holds the history the undo replaced
C36_FileBehind ==
    /\ call = "undo"
    /\ ret.flag
    /\ history_file = File(RowsOf(pre.history))
    /\ history_file # File(RowsOf(history))

(***************************************************************************)
(* C37: what perform_operation returns is what it recorded.                *)
(***************************************************************************)
\* C37: after a perform_operation that returned, the newest entry of the
\* history carries the selected operation's name and the two validated
\* operands, and its result field equals the value returned to the caller.
C37_ReturnedIsRecorded ==
    Succeeded =>
        /\ history # <<>>
        /\ history[Len(history)].operation = operation_strategy
        /\ history[Len(history)].operand1 = args[1].number
        /\ history[Len(history)].operand2 = args[2].number
        /\ history[Len(history)].result = ret.value

\* a Root that went through the float computation: the square root of 2 is
\* returned and recorded
C37_Witness ==
    /\ Succeeded
    /\ operation_strategy = "Root"
    /\ args = <<Number(2), Number(2)>>
    /\ ~IsIntegral(ret.value)
    /\ history[Len(history)].result = ret.value

(***************************************************************************)
(* C38: the strategy and the Calculation record on the pairs they refuse.  *)
(***************************************************************************)
\* the precondition of the operation table that a failure names, whatever
\* the wording and the exception class; "none" when it names none
Violated(r) ==
    IF r.ok THEN "none"
    ELSE IF Contains(r.msg, "Division by zero is not allowed") THEN "b == 0"
    ELSE IF Contains(r.msg, "Negative exponents not supported")
            \/ Contains(r.msg, "Negative exponents are not supported")
         THEN "b < 0"
    ELSE IF Contains(r.msg, "Cannot calculate root of negative number")
         THEN "a < 0"
    ELSE IF Contains(r.msg, "Zero root is undefined") THEN "root: b == 0"
    ELSE "none"

\* the two outcomes refuse together and name the same precondition
SameRejection(r, q) == (r.ok <=> q.ok) /\ Violated(r) = Violated(q)

\* C38: for each strategy class of app.operations and every operand pair,
\* execute raises exactly when constructing the Calculation of the same
\* name on the same pair raises, and the two failures name the same
\* violated precondition.
C38_SameRejections ==
    /\ (call = "execute" /\ args[1] \in BuiltinStrategies) =>
           SameRejection(ret, Calculation(args[1], args[2], args[3], now))
    /\ (call = "Calculation" /\ args[1] \in BuiltinStrategies) =>
           SameRejection(execute(args[1], args[2], args[3]), ret)

\* the pairs both refuse, with the same precondition named, Root with a
\* negative radicand and a zero degree set aside
C38_SameElsewhere ==
    (call \in {"execute", "Calculation"} /\ args[1] \in BuiltinStrategies
     /\ ~(args[1] = "Root" /\ args[2] < 0 /\ args[3] = 0))
        => SameRejection(execute(args[1], args[2], args[3]),
                         Calculation(args[1], args[2], args[3], now))

C40_StrategyStays ==
    [][/\ call' # "set_operation" =>
              operation_strategy' = operation_strategy
       /\ operation_strategy # None => operation_strategy' # None
       /\ call' = "perform_operation" /\ ret'.ok =>
              history'[Len(history')].operation = operation_strategy]_vars

\* NewOperation was selected after the last perform that returned, and an
\* undo has left it selected
C40_Witness ==
    /\ call = "undo"
    /\ ret.flag
    /\ operation_strategy = "NewOperation"
    /\ pre.operation_strategy = "NewOperation"
    /\ history # pre.history

====
